---- MODULE Spec2Model ----
(***************************************************************************)
(* Model of the batch executor of sql-rest-api (src/unnamed/part_000):     *)
(* execBatch, execBatchWithClient, exec and the entry points that reach    *)
(* them, running against a pg pool.  Every await of the source is a        *)
(* suspension point; the reply to a command and the continuation that the  *)
(* reply wakes up (promise reactions run as microtasks right after the     *)
(* callback) form one action.                                              *)
(* Beside it: the parameter lists toArray normalises, the health check     *)
(* PostgreSQLChecker.check with its timer, and the result handlers         *)
(* handleResults, handleBool, map and mapArray as operators on rows.       *)
(***************************************************************************)
EXTENDS Integers, Sequences, FiniteSets, TLC

\* ------------------------------------------------------------- bounds
NumSessions == 2    \* sessions of the pool, beside the manager's client
MaxStmts == 3       \* longest statement list of a single invocation
MaxRows == 2        \* largest affected-row count the engine reports to it
ConcStmts == 2      \* longest statement list of two invocations in flight together
ConcRows == 1       \* largest affected-row count the engine reports to them
MaxParams == 2      \* longest parameter list of a statement
NumChecks == 2      \* health checks that may be in flight or follow one another

\* The invocations: one alone, or the two in flight together.
Calls == {1, 2}
\* Session 0 is the PoolClient handed to a PoolClientManager (checked out of
\* the pool by its creator); 1..NumSessions are the pool's other sessions.
MgrClient == 0
Sessions == 0..NumSessions
\* The pool itself, as opposed to one of its sessions.
Pool == -1
\* Who holds a session: a call, the creator of the PoolClientManager, nobody.
Nobody == 0
Manager == 3
Null == "null"

\* ------------------------------------------------------------ commands
Begin == [k |-> "begin", i |-> 0]
Commit == [k |-> "commit", i |-> 0]
Rollback == [k |-> "rollback", i |-> 0]
Stmt(i) == [k |-> "stmt", i |-> i]
NoCmd == [k |-> "none", i |-> 0]
Release == [k |-> "release", i |-> 0]
PoolConnect == [k |-> "connect", i |-> 0]

\* A statement list of n statements; a statement is known by its position.
\* An absent list (undefined/null) is told apart from the empty one.
Absent == [nil |-> TRUE, items |-> << >>]
List(n) == [nil |-> FALSE, items |-> [i \in 1..n |-> i]]
Length(l) == Len(l.items)
StatementLists == {Absent} \cup {List(n) : n \in 0..MaxStmts}
ConcLists == {List(n) : n \in 2..ConcStmts}
RecordLists == {List(n) : n \in 0..MaxStmts}

\* build.ts is not part of the sources at hand: one self-contained statement
\* per record, in input order, the empty list for the empty list.
buildToSaveBatch(recs) == [nil |-> recs.nil, items |-> [i \in 1..Len(recs.items) |-> recs.items[i]]]

\* ------------------------------------------------------------- errors
DuplicateCode == "23505"
OtherCode == "other"
ConnCode == "08006"
\* An error is known by the step that raised it and its engine code;
\* "error" is the classification field buildError may add.
Err(step, code) == [step |-> step, code |-> code, error |-> Null]
NoErr == Err(NoCmd, Null)

buildError(err) == IF err.code = DuplicateCode THEN [err EXCEPT !.error = "duplicate"] ELSE err

VARIABLES
  pc,           \* where each call is suspended
  entry,        \* the function that runs the batch: execBatch or execBatchWithClient
  via,          \* the entry point the caller used
  objs,         \* the records handed to saveBatch / write
  statements,   \* its statement list
  firstSuccess, \* its policy
  client,       \* the session it runs on (the pool before connect)
  c,            \* its local counter c
  result0,      \* rowCount of the first statement (firstSuccess)
  results,      \* rowCounts that the pending Promise.all has collected
  e,            \* the error its catch block caught
  ret,          \* how the call ended
  trace,        \* what the call did, in order
  sess,         \* per session: holder, transaction state, uncommitted work
  slog,         \* per session: every command issued on it, in issue order
  store,        \* committed effects: the statements <<call, i>> applied
  params,       \* the params every statement of the call carries
  resource_string, \* the static flag resource.string
  handed,       \* per call: the values argument of every client.query, in issue order
  check,        \* per health check: where PostgreSQLChecker.check stands
  pure          \* the rows a query returned and what the result handlers made of them

vars == <<pc, entry, via, objs, statements, firstSuccess, client, c, result0, results, e, ret, trace, sess, slog, store,
          params, resource_string, handed, check, pure>>

\* What no step of a batch changes.
aside == <<params, resource_string, check, pure>>

\* ---------------------------------------------------------- parameter lists
\* A parameter is known by what toArray tells apart: undefined, null, a Date,
\* another object, a scalar; "json" is the JSON text of an object.
ParamKinds == {"undefined", "null", "date", "object", "scalar"}
NoParams == [nil |-> TRUE, items |-> << >>]
EmptyParams == [nil |-> FALSE, items |-> << >>]
ParamLists ==
  {NoParams} \cup {[nil |-> FALSE, items |-> q] : q \in UNION {[1..n -> ParamKinds] : n \in 0..MaxParams}}

toArray(arr) ==
  IF arr.nil \/ Len(arr.items) = 0 THEN EmptyParams
  ELSE [nil |-> FALSE,
        items |-> [i \in 1..Len(arr.items) |->
                     LET v == arr.items[i] IN
                     IF v = "undefined" \/ v = "null" THEN "null"
                     ELSE IF v = "object" THEN (IF resource_string THEN "json" ELSE v)
                     ELSE v]]

\* item.params ? item.params : []
OrEmpty(p) == IF p.nil THEN EmptyParams ELSE p

\* The values argument the call passes to client.query with cmd: fn is the
\* function running the batch, stmts its list, fs its policy, p the params of
\* the statement.
Values(fn, stmts, fs, p, cmd) ==
  IF cmd.k # "stmt" THEN NoParams
  ELSE IF Length(stmts) = 1
    THEN (IF fn = "execBatch" THEN toArray(toArray(p)) ELSE toArray(p))
  ELSE IF fs /\ cmd.i >= 2 THEN OrEmpty(p)
  ELSE toArray(p)
Hand(fn, stmts, fs, p, cmds) ==
  [n \in 1..Len(cmds) |-> [cmd |-> cmds[n], values |-> Values(fn, stmts, fs, p, cmds[n])]]

\* ------------------------------------------------------------- results
Running == [err |-> NoErr, v |-> 0, tag |-> "running"]
Value(v) == [err |-> NoErr, v |-> v, tag |-> "value"]
Undefined == [err |-> NoErr, v |-> 0, tag |-> "undefined"]
Thrown(err) == [err |-> err, v |-> 0, tag |-> "error"]

\* ---------------------------------------------------------- trace events
EvConnect(s) == [code |-> Null, cmd |-> PoolConnect, op |-> "connect", on |-> s, ok |-> TRUE, rows |-> 0]
EvIssue(cmd, on) == [code |-> Null, cmd |-> cmd, op |-> "issue", on |-> on, ok |-> TRUE, rows |-> 0]
EvReply(cmd, on, out) == [code |-> out.code, cmd |-> cmd, op |-> "reply", on |-> on, ok |-> out.ok, rows |-> out.rows]
EvRelease(s) == [code |-> Null, cmd |-> Release, op |-> "release", on |-> s, ok |-> TRUE, rows |-> 0]

\* The pool and the calls before anything ran.
InitBatch ==
  /\ pc = [x \in Calls |-> "idle"]
  /\ entry = [x \in Calls |-> Null]
  /\ via = [x \in Calls |-> Null]
  /\ objs = [x \in Calls |-> Absent]
  /\ statements = [x \in Calls |-> Absent]
  /\ firstSuccess = [x \in Calls |-> FALSE]
  /\ client = [x \in Calls |-> Pool]
  /\ c = [x \in Calls |-> 0]
  /\ result0 = [x \in Calls |-> 0]
  /\ results = [x \in Calls |-> << >>]
  /\ e = [x \in Calls |-> NoErr]
  /\ ret = [x \in Calls |-> Running]
  /\ trace = [x \in Calls |-> << >>]
  /\ sess = [s \in Sessions |->
               [holder |-> IF s = MgrClient THEN Manager ELSE Nobody,
                tx |-> "none", pending |-> {}, broken |-> FALSE]]
  /\ slog = [s \in Sessions |-> << >>]
  /\ store = {}
  /\ handed = [x \in Calls |-> << >>]

\* ------------------------------------------------------ the health checker
Checks == 1..NumChecks
\* The holder's mark of the session health check k checked out.
Checker(k) == Manager + k
DefaultTimeout == 4200
\* The timeout argument of the constructor: none, or a number of milliseconds.
TimeoutArgs == {[given |-> FALSE, ms |-> 0]} \cup {[given |-> TRUE, ms |-> t] : t \in {-1, 0, 1}}
\* constructor: if (!this.timeout) { this.timeout = 4200; }
PostgreSQLChecker(arg) == [timeout |-> IF ~arg.given \/ arg.ms = 0 THEN DefaultTimeout ELSE arg.ms]
SelectNow == [k |-> "stmt", i |-> 0]
\* A check not yet called.  timer: the setTimeout of promiseTimeOut (off,
\* armed, fired); asked: pool.query is outstanding; log: the answer and the
\* timer's firing, in the order they happened; ret: how check() settled.
NotCalled == [pc |-> "idle", ret |-> "running", timeout |-> DefaultTimeout, timer |-> "off", asked |-> FALSE, log |-> << >>]
InitCheck == check = [k \in Checks |-> NotCalled]

\* ---------------------------------------------------- rows and their values
\* A JavaScript value: a string, a number, a boolean, null or undefined.
Str(s) == [n |-> 0, s |-> s, t |-> "string", b |-> FALSE]
Num(n) == [n |-> n, s |-> "", t |-> "number", b |-> FALSE]
Bool(b) == [n |-> 0, s |-> "", t |-> "boolean", b |-> b]
NullValue == [n |-> 0, s |-> "", t |-> "null", b |-> FALSE]
UndefinedValue == [n |-> 0, s |-> "", t |-> "undefined", b |-> FALSE]
Nullish(v) == v.t \in {"null", "undefined"}

\* ToNumber of the language: a string is read as a number or is NaN.
NaN == [n |-> 0, nan |-> TRUE]
ToNumber(v) ==
  IF v.t = "number" THEN [n |-> v.n, nan |-> FALSE]
  ELSE IF v.t = "boolean" THEN [n |-> IF v.b THEN 1 ELSE 0, nan |-> FALSE]
  ELSE IF v.t = "string" THEN (IF v.s = "1" THEN [n |-> 1, nan |-> FALSE]
                                ELSE IF v.s \in {"0", ""} THEN [n |-> 0, nan |-> FALSE]
                                ELSE NaN)
  ELSE NaN
\* a == b of the language (loose equality)
LooseEq(a, b) ==
  IF Nullish(a) \/ Nullish(b) THEN Nullish(a) /\ Nullish(b)
  ELSE IF a.t = b.t THEN a = b
  ELSE ~ToNumber(a).nan /\ ~ToNumber(b).nan /\ ToNumber(a).n = ToNumber(b).n

\* A row: its fields in insertion order, each key once.
EmptyRow == << >>
Keys(obj) == {obj[i].k : i \in DOMAIN obj}
Has(obj, k) == k \in Keys(obj)
Get(obj, k) == obj[CHOOSE i \in DOMAIN obj : obj[i].k = k].v
\* obj[k] = v
Put(obj, k, v) ==
  IF Has(obj, k) THEN [i \in DOMAIN obj |-> IF obj[i].k = k THEN [k |-> k, v |-> v] ELSE obj[i]]
  ELSE Append(obj, [k |-> k, v |-> v])

\* 'true' == v || '1' == v || 't' == v || 'y' == v || 'on' == v
TrueWords == {"true", "1", "t", "y", "on"}

\* The inputs: rows over RowKeys with FieldValues, field maps from MapKeys to
\* Dests, boolean attributes named in BoolNames with a true literal or none.
RowKeys == {"a", "b"}
FieldValues == {Str("y"), Str("Y"), Num(1), Bool(TRUE), NullValue}
Rows ==
  {EmptyRow}
  \cup {<<[k |-> k, v |-> v]>> : k \in RowKeys, v \in FieldValues}
  \cup UNION {{<<[k |-> k1, v |-> v1], [k |-> k2, v |-> v2]>> :
                  k2 \in RowKeys \ {k1}, v1 \in FieldValues, v2 \in FieldValues} : k1 \in RowKeys}
RowSets ==
  {<< >>} \cup {<<r>> : r \in Rows}
  \cup {<<r1, r2>> : r1 \in {<<[k |-> "a", v |-> v]>> : v \in FieldValues},
                     r2 \in {<<[k |-> "a", v |-> v]>> : v \in FieldValues}}
MapKeys == {"a", "b"}
Dests == {"a", "x", "y", ""}
NoMap == [nil |-> TRUE, f |-> << >>]
StringMaps == {NoMap} \cup {[nil |-> FALSE, f |-> f] : f \in UNION {[D -> Dests] : D \in SUBSET MapKeys}}
BoolNames == {"a", "x"}
TrueLiterals == {UndefinedValue, Str("Y"), Num(1)}
Attributes == {[name |-> n, true |-> b] : n \in BoolNames, b \in TrueLiterals}
NoBools == [nil |-> TRUE, items |-> << >>]
BoolLists ==
  {NoBools, [nil |-> FALSE, items |-> << >>]}
  \cup {[nil |-> FALSE, items |-> <<a>>] : a \in Attributes}
  \cup UNION {{[nil |-> FALSE, items |-> <<a1, a2>>] : a2 \in {a \in Attributes : a.name # a1.name}} : a1 \in Attributes}

\* Nothing was queried.
NoInput == [rows |-> << >>, orig |-> << >>, prev |-> << >>, m |-> NoMap, bools |-> NoBools, ops |-> << >>]

Init ==
  /\ InitBatch
  /\ params = [x \in Calls |-> NoParams]
  /\ resource_string = FALSE
  /\ InitCheck
  /\ pure = NoInput

\* ------------------------------------------------- the engine (pg, PostgreSQL)
Ok(rows) == [code |-> Null, ok |-> TRUE, rows |-> rows]
Fail(code) == [code |-> code, ok |-> FALSE, rows |-> 0]

\* What the engine may answer within a specification: row counts up to rows,
\* statement failures with one of codes.
SingleLimits == [rows |-> MaxRows, codes |-> {DuplicateCode, OtherCode, ConnCode}]
ConcLimits == [rows |-> ConcRows, codes |-> {OtherCode}]

\* What a session may answer to a command.  A broken connection fails
\* everything; inside an aborted transaction only commit/rollback are served.
ServerOutcomes(sv, cmd, lim) ==
  IF sv.broken THEN {Fail(ConnCode)}
  ELSE IF cmd.k = "begin"
    THEN (IF sv.tx = "aborted" THEN {Fail(OtherCode)} ELSE {Ok(0)}) \cup {Fail(ConnCode)}
  ELSE IF cmd.k = "stmt"
    THEN IF sv.tx = "aborted" THEN {Fail(OtherCode)}
         ELSE {Ok(k) : k \in 0..lim.rows} \cup {Fail(code) : code \in lim.codes}
  ELSE IF cmd.k = "commit"
    THEN {Ok(0), Fail(OtherCode), Fail(ConnCode)}
  ELSE {Ok(0), Fail(ConnCode)}

\* The session after it served cmd (id names the statement's effect; a
\* statement that affected no row changed nothing).
ServerApply(sv, cmd, out, id) ==
  IF sv.broken THEN sv
  ELSE IF out.code = ConnCode THEN [sv EXCEPT !.broken = TRUE, !.tx = "none", !.pending = {}]
  ELSE IF cmd.k = "begin"
    THEN IF out.ok /\ sv.tx = "none" THEN [sv EXCEPT !.tx = "open"] ELSE sv
  ELSE IF cmd.k = "stmt"
    THEN IF sv.tx = "none" THEN sv
         ELSE IF out.ok THEN [sv EXCEPT !.pending = IF out.rows > 0 THEN @ \cup {id} ELSE @]
         ELSE [sv EXCEPT !.tx = "aborted", !.pending = {}]
  ELSE [sv EXCEPT !.tx = "none", !.pending = {}]

\* The committed store after the session served cmd: a statement outside a
\* transaction commits at once, commit publishes the open transaction's work.
StoreApply(st, sv, cmd, out, id) ==
  IF sv.broken \/ ~out.ok THEN st
  ELSE IF cmd.k = "stmt" /\ sv.tx = "none" THEN (IF out.rows > 0 THEN st \cup {id} ELSE st)
  ELSE IF cmd.k = "commit" /\ sv.tx = "open" THEN st \cup sv.pending
  ELSE st

\* ------------------------------------------------------ a session's queue
Entry(x, cmd, st) == [cmd |-> cmd, st |-> st, call |-> x]
Issue(log, x, cmds) == log \o [j \in 1..Len(cmds) |-> Entry(x, cmds[j], "queued")]
HasQueued(log) == \E j \in 1..Len(log) : log[j].st = "queued"
HeadIdx(log) == CHOOSE j \in 1..Len(log) : log[j].st = "queued" /\ \A k \in 1..(j - 1) : log[k].st # "queued"
Mark(log, j, ok) == [log EXCEPT ![j].st = IF ok THEN "ok" ELSE "err"]
Idle(s) == sess[s].holder = Nobody /\ ~HasQueued(slog[s])
\* Sessions that were never used are alike: the pool hands out the first.
Fresh(s) == slog[s] = << >> /\ sess[s].tx = "none" /\ ~sess[s].broken
Available(s) == Idle(s) /\ (Fresh(s) => \A t \in Sessions : (t < s /\ Idle(t)) => ~Fresh(t))

RECURSIVE Sum(_)
Sum(rs) == IF rs = << >> THEN 0 ELSE Head(rs) + Sum(Tail(rs))

\* ------------------------------------------- the code between two awaits
\* A continuation: where the call suspends next, what it issues (and on what),
\* its locals, whether the finally block released the client, how it ended.
K(x) == [pc |-> pc[x], c |-> c[x], result0 |-> result0[x], results |-> results[x], e |-> e[x],
         ret |-> Running, on |-> client[x], issue |-> << >>, release |-> FALSE]

\* The commands sent through the pool, which runs each on any idle session.
TargetPool(x) == Pool
\* The commands sent on one client shared by all calls.
TargetShared(x) == MgrClient

\* The session every command of a transaction is issued on.
Target(x) == client[x]

\* finally { client.release(); }  -- pg throws on a client already released.
Finally(x, k, how) ==
  [k EXCEPT !.pc = "done", !.release = TRUE,
            !.ret = IF sess[client[x]].holder = Nobody THEN Thrown(Err(Release, OtherCode)) ELSE how]

\* The rollback sent through the pool instead of the session of the transaction.
CatchOnPool(x, k, err) ==
  [k EXCEPT !.pc = "rollback", !.e = err, !.issue = <<Rollback>>, !.on = Pool]

\* catch (e) { [buildError(e);] await client.query('rollback'); throw e; }
Caught(x, err) == IF entry[x] = "execBatch" /\ firstSuccess[x] THEN buildError(err) ELSE err
Catch(x, k, err) ==
  [k EXCEPT !.pc = "rollback", !.e = Caught(x, err), !.issue = <<Rollback>>, !.on = Target(x)]

\* The gate left open whatever the first statement affected.
GateAlways(rowCount) == TRUE

\* result0 && result0.rowCount !== 0
GatePassed(rowCount) == rowCount # 0

\* statements.slice(1) / statements, as commands
Subs(stmts) == [i \in 1..(Length(stmts) - 1) |-> Stmt(i + 1)]
All(stmts) == [i \in 1..Length(stmts) |-> Stmt(i)]
\* How many results the pending Promise.all waits for.
Awaited(x) == IF firstSuccess[x] THEN Length(statements[x]) - 1 ELSE Length(statements[x])

\* The policy ignored: every statement dispatched as soon as begin is done.
AfterBeginEager(x, out) ==
  IF ~out.ok THEN Catch(x, K(x), Err(Begin, out.code))
  ELSE [K(x) EXCEPT !.pc = "all", !.issue = All(statements[x]), !.on = Target(x), !.results = << >>]

\* after: await client.query('begin')
AfterBegin(x, out) ==
  IF ~out.ok THEN Catch(x, K(x), Err(Begin, out.code))
  ELSE IF firstSuccess[x]
    THEN [K(x) EXCEPT !.pc = "first", !.issue = <<Stmt(1)>>, !.on = Target(x)]
    ELSE [K(x) EXCEPT !.pc = "all", !.issue = All(statements[x]), !.on = Target(x), !.results = << >>]

\* after: const result0 = await client.query(statements[0]...)
AfterFirst(x, out) ==
  IF ~out.ok THEN Catch(x, K(x), Err(Stmt(1), out.code))
  ELSE IF GatePassed(out.rows)
    THEN [K(x) EXCEPT !.pc = "all", !.result0 = out.rows, !.issue = Subs(statements[x]),
                      !.on = Target(x), !.results = << >>]
    ELSE Finally(x, [K(x) EXCEPT !.result0 = out.rows], Undefined)

\* The first statement's count left out of the total.
TotalNoFirst(x, rs) == c[x] + Sum(rs)

\* c after Promise.all resolved: the sum of the results, plus result0 when gated
Total(x, rs) == c[x] + Sum(rs) + (IF firstSuccess[x] THEN result0[x] ELSE 0)

\* a reply to one of the statements under Promise.all
AfterAll(x, cmd, out) ==
  IF ~out.ok THEN Catch(x, K(x), Err(cmd, out.code))
  ELSE LET rs == Append(results[x], out.rows) IN
       IF Len(rs) < Awaited(x) THEN [K(x) EXCEPT !.results = rs]
       ELSE [K(x) EXCEPT !.pc = "commit", !.results = rs, !.c = Total(x, rs),
                         !.issue = <<Commit>>, !.on = Target(x)]

\* after: await client.query('commit'); return c;
AfterCommit(x, out) ==
  IF ~out.ok THEN Catch(x, K(x), Err(Commit, out.code))
  ELSE Finally(x, K(x), Value(c[x]))

\* The release placed after the rollback in the catch block, not in a finally.
AfterRollbackLeak(x, out) ==
  IF ~out.ok THEN [K(x) EXCEPT !.pc = "done", !.ret = Thrown(Err(Rollback, out.code))]
  ELSE Finally(x, K(x), Thrown(e[x]))

\* after: await client.query('rollback'); throw e;
AfterRollback(x, out) ==
  IF ~out.ok THEN Finally(x, K(x), Thrown(Err(Rollback, out.code)))
  ELSE Finally(x, K(x), Thrown(e[x]))

\* exec's callback: reject(buildError(err)) or resolve(results.rowCount)
AfterExec(x, out) ==
  IF ~out.ok THEN [K(x) EXCEPT !.pc = "done", !.ret = Thrown(buildError(Err(Stmt(1), out.code)))]
  ELSE [K(x) EXCEPT !.pc = "done", !.ret = Value(out.rows)]

\* ------------------------------------------------------------ the calls
Effect(x, cmd) == <<x, cmd.i>>
Served(x, s, kind) ==
  /\ HasQueued(slog[s])
  /\ slog[s][HeadIdx(slog[s])].call = x
  /\ slog[s][HeadIdx(slog[s])].cmd.k = kind

\* Session s answers `out` to the command at the head of its queue, and the
\* call x that awaited it runs on to its next await (or its end) as k says.
Resume(x, s, out, k) ==
  LET j == HeadIdx(slog[s])
      cmd == slog[s][j].cmd
      served == ServerApply(sess[s], cmd, out, Effect(x, cmd))
      evs == <<EvReply(cmd, s, out)>>
               \o [n \in 1..Len(k.issue) |-> EvIssue(k.issue[n], k.on)]
               \o (IF k.release THEN <<EvRelease(client[x])>> ELSE << >>)
  IN /\ slog' = [t \in Sessions |->
                   LET base == IF t = s THEN Mark(slog[t], j, out.ok) ELSE slog[t]
                   IN IF t = k.on THEN Issue(base, x, k.issue) ELSE base]
     /\ sess' = [t \in Sessions |->
                   LET base == IF t = s THEN served ELSE sess[t]
                   IN IF k.release /\ t = client[x] THEN [base EXCEPT !.holder = Nobody] ELSE base]
     /\ store' = StoreApply(store, sess[s], cmd, out, Effect(x, cmd))
     /\ pc' = [pc EXCEPT ![x] = k.pc]
     /\ c' = [c EXCEPT ![x] = k.c]
     /\ result0' = [result0 EXCEPT ![x] = k.result0]
     /\ results' = [results EXCEPT ![x] = k.results]
     /\ e' = [e EXCEPT ![x] = k.e]
     /\ ret' = [ret EXCEPT ![x] = k.ret]
     /\ trace' = [trace EXCEPT ![x] = @ \o evs]
     /\ handed' = [handed EXCEPT ![x] = @ \o Hand(entry[x], statements[x], firstSuccess[x], params[x], k.issue)]
     /\ UNCHANGED <<entry, via, objs, statements, firstSuccess, client>>
     /\ UNCHANGED aside

\* Entering execBatch / execBatchWithClient: everything up to the first await.
Enter(x, fn, how, recs, stmts, fs, k) ==
  /\ pc[x] = "idle"
  /\ objs' = [objs EXCEPT ![x] = recs]
  /\ entry' = [entry EXCEPT ![x] = fn]
  /\ via' = [via EXCEPT ![x] = how]
  /\ statements' = [statements EXCEPT ![x] = stmts]
  /\ firstSuccess' = [firstSuccess EXCEPT ![x] = fs]
  /\ pc' = [pc EXCEPT ![x] = k.pc]
  /\ client' = [client EXCEPT ![x] = k.on]
  /\ ret' = [ret EXCEPT ![x] = k.ret]
  /\ trace' = [trace EXCEPT ![x] = [n \in 1..Len(k.issue) |-> EvIssue(k.issue[n], k.on)]]
  /\ slog' = [t \in Sessions |-> IF t = k.on THEN Issue(slog[t], x, k.issue) ELSE slog[t]]
  /\ handed' = [handed EXCEPT ![x] = Hand(fn, stmts, fs, params[x], k.issue)]
  /\ UNCHANGED <<c, result0, results, e, sess, store>>
  /\ UNCHANGED aside

Start == [pc |-> "idle", ret |-> Running, on |-> Pool, issue |-> << >>]

\* The empty list not short-circuited: only an absent list returns at once.
execBatchNoEmptyCheck(x, how, recs, stmts, fs) ==
  Enter(x, "execBatch", how, recs, stmts, fs,
        IF stmts.nil THEN [Start EXCEPT !.pc = "done", !.ret = Value(0)]
        ELSE IF Length(stmts) = 1 THEN [Start EXCEPT !.pc = "exec", !.issue = <<Stmt(1)>>]
        ELSE [Start EXCEPT !.pc = "connect"])

\* The single statement not short-circuited: it goes through the transaction.
execBatchNoSingle(x, how, recs, stmts, fs) ==
  Enter(x, "execBatch", how, recs, stmts, fs,
        IF stmts.nil \/ Length(stmts) = 0 THEN [Start EXCEPT !.pc = "done", !.ret = Value(0)]
        ELSE [Start EXCEPT !.pc = "connect"])

\* execBatch(pool, statements, firstSuccess) up to `await pool.connect()`
execBatch(x, how, recs, stmts, fs) ==
  Enter(x, "execBatch", how, recs, stmts, fs,
        IF stmts.nil \/ Length(stmts) = 0 THEN [Start EXCEPT !.pc = "done", !.ret = Value(0)]
        ELSE IF Length(stmts) = 1 THEN [Start EXCEPT !.pc = "exec", !.issue = <<Stmt(1)>>]
        ELSE [Start EXCEPT !.pc = "connect"])

\* execBatchWithClient(client, statements, firstSuccess) up to its first await
execBatchWithClient(x, how, recs, stmts, fs) ==
  Enter(x, "execBatchWithClient", how, recs, stmts, fs,
        IF stmts.nil \/ Length(stmts) = 0 THEN [Start EXCEPT !.pc = "done", !.ret = Value(0)]
        ELSE IF Length(stmts) = 1 THEN [Start EXCEPT !.pc = "exec", !.issue = <<Stmt(1)>>, !.on = MgrClient]
        ELSE [Start EXCEPT !.pc = "begin", !.issue = <<Begin>>, !.on = MgrClient])

saveBatch(x, recs) == execBatch(x, "saveBatch", recs, buildToSaveBatch(recs), FALSE)

saveBatchWithClient(x, recs) ==
  execBatchWithClient(x, "saveBatchWithClient", recs, buildToSaveBatch(recs), FALSE)

\* PostgreSQLBatchWriter.write(objs) on a pool
write(x, recs) ==
  IF recs.nil \/ Length(recs) = 0
    THEN Enter(x, Null, "write", recs, Absent, FALSE, [Start EXCEPT !.pc = "done", !.ret = Value(0)])
    ELSE LET stmts == buildToSaveBatch(recs) IN
         IF ~stmts.nil /\ Length(stmts) > 0
           THEN execBatch(x, "write", recs, stmts, FALSE)
           ELSE Enter(x, Null, "write", recs, stmts, FALSE, [Start EXCEPT !.pc = "done", !.ret = Value(0)])

CallExecBatch(x, lists) == \E stmts \in lists, fs \in BOOLEAN : execBatch(x, "execBatch", Absent, stmts, fs)
CallExecBatchWithClient(x) ==
  \E stmts \in StatementLists, fs \in BOOLEAN :
     execBatchWithClient(x, "execBatchWithClient", Absent, stmts, fs)
CallSaveBatch(x) == \E recs \in RecordLists : saveBatch(x, recs)
CallSaveBatchWithClient(x) == \E recs \in RecordLists : saveBatchWithClient(x, recs)
CallWrite(x) == \E recs \in RecordLists \cup {Absent} : write(x, recs)

\* const client = await pool.connect(); let c = 0; ... await client.query('begin')
Connected(x) ==
  /\ pc[x] = "connect"
  /\ \E s \in Sessions :
       /\ Available(s)
       /\ sess' = [sess EXCEPT ![s].holder = x]
       /\ client' = [client EXCEPT ![x] = s]
       /\ slog' = [slog EXCEPT ![s] = Issue(@, x, <<Begin>>)]
       /\ trace' = [trace EXCEPT ![x] = @ \o <<EvConnect(s), EvIssue(Begin, s)>>]
  /\ c' = [c EXCEPT ![x] = 0]
  /\ pc' = [pc EXCEPT ![x] = "begin"]
  /\ handed' = [handed EXCEPT ![x] = @ \o Hand(entry[x], statements[x], firstSuccess[x], params[x], <<Begin>>)]
  /\ UNCHANGED <<entry, via, objs, statements, firstSuccess, result0, results, e, ret, store>>
  /\ UNCHANGED aside

\* pool.connect() rejects: outside the try, nothing to release
ConnectFailed(x) ==
  /\ pc[x] = "connect"
  /\ pc' = [pc EXCEPT ![x] = "done"]
  /\ ret' = [ret EXCEPT ![x] = Thrown(Err(PoolConnect, ConnCode))]
  /\ UNCHANGED <<entry, via, objs, statements, firstSuccess, client, c, result0, results, e, trace, sess, slog, store>>
  /\ UNCHANGED <<handed, aside>>

BeginReply(x) ==
  /\ pc[x] = "begin"
  /\ \E s \in Sessions :
       /\ Served(x, s, "begin")
       /\ \E out \in ServerOutcomes(sess[s], Begin, SingleLimits) : Resume(x, s, out, AfterBegin(x, out))

FirstReply(x, lim) ==
  /\ pc[x] = "first"
  /\ \E s \in Sessions :
       /\ Served(x, s, "stmt")
       /\ \E out \in ServerOutcomes(sess[s], Stmt(1), lim) : Resume(x, s, out, AfterFirst(x, out))

AllReply(x, lim) ==
  /\ pc[x] = "all"
  /\ \E s \in Sessions :
       /\ Served(x, s, "stmt")
       /\ LET cmd == slog[s][HeadIdx(slog[s])].cmd IN
          \E out \in ServerOutcomes(sess[s], cmd, lim) : Resume(x, s, out, AfterAll(x, cmd, out))

\* a statement answered after Promise.all has already rejected: nobody listens
LateReply(x, lim) ==
  /\ pc[x] = "rollback"
  /\ \E s \in Sessions :
       /\ Served(x, s, "stmt")
       /\ LET cmd == slog[s][HeadIdx(slog[s])].cmd IN
          \E out \in ServerOutcomes(sess[s], cmd, lim) : Resume(x, s, out, K(x))

CommitReply(x) ==
  /\ pc[x] = "commit"
  /\ \E s \in Sessions :
       /\ Served(x, s, "commit")
       /\ \E out \in ServerOutcomes(sess[s], Commit, SingleLimits) : Resume(x, s, out, AfterCommit(x, out))

RollbackReply(x) ==
  /\ pc[x] = "rollback"
  /\ \E s \in Sessions :
       /\ Served(x, s, "rollback")
       /\ \E out \in ServerOutcomes(sess[s], Rollback, SingleLimits) : Resume(x, s, out, AfterRollback(x, out))

\* exec(client, ...) on the caller's client: the single statement's callback
ExecReply(x, lim) ==
  /\ pc[x] = "exec"
  /\ client[x] # Pool
  /\ \E s \in Sessions :
       /\ Served(x, s, "stmt")
       /\ \E out \in ServerOutcomes(sess[s], Stmt(1), lim) : Resume(x, s, out, AfterExec(x, out))

\* exec(pool, ...): pool.query runs the statement on an idle session of the
\* pool and hands the session back before the callback runs.
PoolExecReply(x, lim) ==
  /\ pc[x] = "exec"
  /\ client[x] = Pool
  /\ \E s \in Sessions :
       /\ Available(s)
       /\ \E out \in ServerOutcomes(sess[s], Stmt(1), lim) :
            LET k == AfterExec(x, out) IN
            /\ slog' = [slog EXCEPT ![s] = Append(@, Entry(x, Stmt(1), IF out.ok THEN "ok" ELSE "err"))]
            /\ sess' = [sess EXCEPT ![s] = ServerApply(@, Stmt(1), out, Effect(x, Stmt(1)))]
            /\ store' = StoreApply(store, sess[s], Stmt(1), out, Effect(x, Stmt(1)))
            /\ pc' = [pc EXCEPT ![x] = k.pc]
            /\ ret' = [ret EXCEPT ![x] = k.ret]
            /\ trace' = [trace EXCEPT ![x] = Append(@, EvReply(Stmt(1), Pool, out))]
  /\ UNCHANGED <<entry, via, objs, statements, firstSuccess, client, c, result0, results, e>>
  /\ UNCHANGED <<handed, aside>>

\* One invocation alone, through any of the entry points.
Next ==
  \/ CallExecBatch(1, StatementLists)
  \/ CallExecBatchWithClient(1)
  \/ CallSaveBatch(1)
  \/ CallSaveBatchWithClient(1)
  \/ CallWrite(1)
  \/ Connected(1)
  \/ ConnectFailed(1)
  \/ BeginReply(1)
  \/ FirstReply(1, SingleLimits)
  \/ AllReply(1, SingleLimits)
  \/ LateReply(1, SingleLimits)
  \/ CommitReply(1)
  \/ RollbackReply(1)
  \/ ExecReply(1, SingleLimits)
  \/ PoolExecReply(1, SingleLimits)
Spec == Init /\ [][Next]_vars

\* Two execBatch invocations of two or more statements on the same pool, in
\* flight together.
NextConc ==
  \E x \in Calls :
    \/ CallExecBatch(x, ConcLists)
    \/ Connected(x)
    \/ ConnectFailed(x)
    \/ BeginReply(x)
    \/ FirstReply(x, ConcLimits)
    \/ AllReply(x, ConcLimits)
    \/ LateReply(x, ConcLimits)
    \/ CommitReply(x)
    \/ RollbackReply(x)
SpecConc == Init /\ [][NextConc]_vars

\* One invocation of execBatch or execBatchWithClient whose statements carry
\* parameters, with resource.string set or not.
InitParams ==
  /\ InitBatch
  /\ \E p \in ParamLists : params = [x \in Calls |-> IF x = 1 THEN p ELSE NoParams]
  /\ resource_string \in BOOLEAN
  /\ InitCheck
  /\ pure = NoInput
NextParams ==
  \/ CallExecBatch(1, StatementLists)
  \/ CallExecBatchWithClient(1)
  \/ Connected(1)
  \/ ConnectFailed(1)
  \/ BeginReply(1)
  \/ FirstReply(1, ConcLimits)
  \/ AllReply(1, ConcLimits)
  \/ LateReply(1, ConcLimits)
  \/ CommitReply(1)
  \/ RollbackReply(1)
  \/ ExecReply(1, ConcLimits)
  \/ PoolExecReply(1, ConcLimits)
SpecParams == InitParams /\ [][NextParams]_vars

\* A sequence of execBatch calls on one PoolClientManager: the second call is
\* made when the first has ended, on the same client.
NextSeq ==
  \/ CallExecBatchWithClient(1)
  \/ (pc[1] = "done" /\ CallExecBatchWithClient(2))
  \/ \E x \in Calls :
       \/ BeginReply(x)
       \/ FirstReply(x, ConcLimits)
       \/ AllReply(x, ConcLimits)
       \/ LateReply(x, ConcLimits)
       \/ CommitReply(x)
       \/ RollbackReply(x)
       \/ ExecReply(x, ConcLimits)
SpecSeq == Init /\ [][NextSeq]_vars

\* ------------------------------------------------ PostgreSQLChecker.check
\* What a health check leaves alone: the batch calls.
calls == <<pc, entry, via, objs, statements, firstSuccess, client, c, result0, results, e, ret, trace, store,
           params, resource_string, handed, pure>>

\* check() is called on a checker constructed with arg: up to
\* `await this.pool.connect()`
Check(k) ==
  /\ check[k].pc = "idle"
  /\ \E arg \in TimeoutArgs :
       check' = [check EXCEPT ![k].pc = "connect", ![k].timeout = PostgreSQLChecker(arg).timeout]
  /\ UNCHANGED <<calls, sess, slog>>

\* pool.connect() resolved: the session is dropped on the floor; pool.query
\* is issued and, when timeout > 0, raced against the timer.
CheckConnected(k) ==
  /\ check[k].pc = "connect"
  /\ \E s \in Sessions :
       /\ Available(s)
       /\ sess' = [sess EXCEPT ![s].holder = Checker(k)]
  /\ check' = [check EXCEPT ![k].pc = IF check[k].timeout > 0 THEN "race" ELSE "query",
                             ![k].asked = TRUE,
                             ![k].timer = IF check[k].timeout > 0 THEN "armed" ELSE "off"]
  /\ UNCHANGED <<calls, slog>>

\* pool.connect() rejected: the await throws out of check()
CheckConnectFailed(k) ==
  /\ check[k].pc = "connect"
  /\ check' = [check EXCEPT ![k].pc = "done", ![k].ret = "error"]
  /\ UNCHANGED <<calls, sess, slog>>

\* The callback of pool.query('select now()'): resolve(obj) or reject(err).
\* The race takes the first to settle; a later answer changes nothing.
CheckAnswered(k) ==
  /\ check[k].asked
  /\ \E s \in Sessions :
       /\ Available(s)
       /\ \E out \in {Ok(1), Fail(ConnCode)} :
            LET how == IF out.ok THEN "ok" ELSE "error" IN
            /\ sess' = [sess EXCEPT ![s] = ServerApply(@, SelectNow, out, <<Checker(k), 0>>)]
            /\ slog' = [slog EXCEPT ![s] = Append(@, Entry(Checker(k), SelectNow, IF out.ok THEN "ok" ELSE "err"))]
            /\ check' = [check EXCEPT ![k].asked = FALSE,
                                       ![k].log = Append(@, how),
                                       ![k].pc = "done",
                                       ![k].ret = IF check[k].pc = "done" THEN @ ELSE how]
  /\ UNCHANGED calls

\* setTimeout's callback: reject(`Timed out in: ...`)
TimerFired(k) ==
  /\ check[k].timer = "armed"
  /\ check' = [check EXCEPT ![k].timer = "fired",
                             ![k].log = Append(@, "timeout"),
                             ![k].pc = "done",
                             ![k].ret = IF check[k].pc = "done" THEN @ ELSE "timeout"]
  /\ UNCHANGED <<calls, sess, slog>>

NextChecker ==
  \E k \in Checks :
    \/ Check(k)
    \/ CheckConnected(k)
    \/ CheckConnectFailed(k)
    \/ CheckAnswered(k)
    \/ TimerFired(k)
\* The event loop runs every timer that is due; the database owes no answer.
SpecChecker == Init /\ [][NextChecker]_vars /\ \A k \in Checks : WF_vars(TimerFired(k))

\* -------------------------------------------------- the result handlers
\* The test for native booleans left out: every present value is converted.
CoerceFieldAlways(obj, field) ==
  IF ~Has(obj, field.name) THEN obj
  ELSE LET v == Get(obj, field.name)
           b == field.true
       IN IF Nullish(v) THEN obj
          ELSE Put(obj, field.name,
                   Bool(IF Nullish(b) THEN \E w \in TrueWords : LooseEq(Str(w), v) ELSE LooseEq(v, b)))

\* The words compared without regard to case.
TruthyAnyCase(v) == \E w \in TrueWords \cup {"Y"} : LooseEq(Str(w), v)

\* 'true' == v || '1' == v || 't' == v || 'y' == v || 'on' == v
Truthy(v) == \E w \in TrueWords : LooseEq(Str(w), v)

\* the body of handleBool's inner loop, for one attribute of one row
CoerceField(obj, field) ==
  IF ~Has(obj, field.name) THEN obj
  ELSE LET v == Get(obj, field.name)
           b == field.true
       IN IF v.t = "boolean" \/ Nullish(v) THEN obj
          ELSE Put(obj, field.name, Bool(IF Nullish(b) THEN Truthy(v) ELSE LooseEq(v, b)))

RECURSIVE CoerceAll(_, _)
CoerceAll(obj, fields) ==
  IF fields = << >> THEN obj ELSE CoerceAll(CoerceField(obj, Head(fields)), Tail(fields))

handleBool(objs_, bools) ==
  IF bools.nil \/ Len(bools.items) = 0 THEN objs_
  ELSE [i \in DOMAIN objs_ |-> CoerceAll(objs_[i], bools.items)]

\* A key without a destination is dropped instead of kept.
RECURSIVE RenameNoFallback(_, _, _)
RenameNoFallback(obj2, obj, m) ==
  IF obj = << >> THEN obj2
  ELSE LET key == Head(obj).k IN
       IF key \in DOMAIN m.f /\ m.f[key] # ""
         THEN RenameNoFallback(Put(obj2, m.f[key], Head(obj).v), Tail(obj), m)
         ELSE RenameNoFallback(obj2, Tail(obj), m)

\* for (const key of keys) { let k0 = m[key]; if (!k0) { k0 = key; } obj2[k0] = obj[key]; }
RECURSIVE Rename(_, _, _)
Rename(obj2, obj, m) ==
  IF obj = << >> THEN obj2
  ELSE LET key == Head(obj).k
           k0 == IF key \in DOMAIN m.f /\ m.f[key] # "" THEN m.f[key] ELSE key
       IN Rename(Put(obj2, k0, Head(obj).v), Tail(obj), m)

map(obj, m) ==
  IF m.nil \/ DOMAIN m.f = {} THEN obj ELSE Rename(EmptyRow, obj, m)

mapArray(results_, m) ==
  IF m.nil \/ DOMAIN m.f = {} THEN results_
  ELSE [i \in DOMAIN results_ |-> Rename(EmptyRow, results_[i], m)]

\* The booleans coerced before the fields are renamed.
handleResultsCoerceFirst(r, m, bools) ==
  IF ~m.nil
    THEN IF ~bools.nil /\ Len(bools.items) > 0 THEN mapArray(handleBool(r, bools), m) ELSE mapArray(r, m)
    ELSE IF ~bools.nil /\ Len(bools.items) > 0 THEN handleBool(r, bools) ELSE r

handleResults(r, m, bools) ==
  IF ~m.nil
    THEN LET res == mapArray(r, m) IN
         IF ~bools.nil /\ Len(bools.items) > 0 THEN handleBool(res, bools) ELSE res
    ELSE IF ~bools.nil /\ Len(bools.items) > 0 THEN handleBool(r, bools) ELSE r

\* The inverse of a one-to-one field map.
OneToOne(m) == ~m.nil /\ \A j, k \in DOMAIN m.f : m.f[j] = m.f[k] => j = k
Range(f) == {f[k] : k \in DOMAIN f}
Inverse(m) == [nil |-> FALSE, f |-> [d \in Range(m.f) |-> CHOOSE k \in DOMAIN m.f : m.f[k] = d]]

\* What the result handlers leave alone.
rest == <<pc, entry, via, objs, statements, firstSuccess, client, c, result0, results, e, ret, trace, store,
          params, resource_string, handed, sess, slog, check>>

Applied(op, rows) == [pure EXCEPT !.prev = pure.rows, !.rows = rows, !.ops = Append(@, op)]

\* handleBool(rows, bools), once and once more on its own result
HandleBool ==
  /\ pure.ops \in {<< >>, <<"handleBool">>}
  /\ pure' = Applied("handleBool", handleBool(pure.rows, pure.bools))
  /\ UNCHANGED rest

\* mapArray(rows, m)
MapArray ==
  /\ pure.ops = << >>
  /\ pure' = Applied("mapArray", mapArray(pure.rows, pure.m))
  /\ UNCHANGED rest

\* mapArray(mapArray(rows, m), inverse of m)
MapBack ==
  /\ pure.ops = <<"mapArray">>
  /\ OneToOne(pure.m)
  /\ pure' = Applied("mapBack", mapArray(pure.rows, Inverse(pure.m)))
  /\ UNCHANGED rest

\* handleResults(rows, m, bools), as query calls it
HandleResults ==
  /\ pure.ops = << >>
  /\ pure' = Applied("handleResults", handleResults(pure.rows, pure.m, pure.bools))
  /\ UNCHANGED rest

InitPure ==
  /\ InitBatch
  /\ params = [x \in Calls |-> NoParams]
  /\ resource_string = FALSE
  /\ InitCheck
  /\ \E r \in RowSets, m \in StringMaps, bools \in BoolLists :
       pure = [rows |-> r, orig |-> r, prev |-> r, m |-> m, bools |-> bools, ops |-> << >>]
NextPure == HandleBool \/ MapArray \/ MapBack \/ HandleResults
SpecPure == InitPure /\ [][NextPure]_vars

\* ================================================================ properties
Events(x) == DOMAIN trace[x]
IsIssue(ev, cmd) == ev.op = "issue" /\ ev.cmd = cmd
IsReply(ev, kind) == ev.op = "reply" /\ ev.cmd.k = kind
Issued(x, cmd) == \E j \in Events(x) : IsIssue(trace[x][j], cmd)
Count(x, P(_)) == Cardinality({j \in Events(x) : P(trace[x][j])})
IsRelease(ev) == ev.op = "release"
IsConnect(ev) == ev.op = "connect"
Batch(x) == entry[x] \in {"execBatch", "execBatchWithClient"} /\ Length(statements[x]) >= 2
Pooled(x) == entry[x] = "execBatch" /\ Length(statements[x]) >= 2
Effects(x) == {<<x, i>> : i \in 1..(MaxStmts + 1)}
Mine(x, s) == {j \in DOMAIN slog[s] : slog[s][j].call = x}

\* The first statement of a gated batch was answered: no row affected.
GateMissed(x) ==
  /\ Batch(x) /\ firstSuccess[x]
  /\ \E j \in Events(x) : IsReply(trace[x][j], "stmt") /\ trace[x][j].cmd = Stmt(1)
                          /\ trace[x][j].ok /\ trace[x][j].rows = 0

\* C1: in a gated batch of two or more statements whose first statement
\* affected no row, no later statement is dispatched, commit is not issued,
\* and the call has ended, with no error and no positive count.
C1_GateMiss ==
  \A x \in Calls : GateMissed(x) =>
    /\ \A i \in 2..Length(statements[x]) : ~Issued(x, Stmt(i))
    /\ \A s \in Sessions : \A j \in Mine(x, s) : slog[s][j].cmd \in {Begin, Stmt(1)}
    /\ ~Issued(x, Commit)
    /\ pc[x] = "done"
    /\ ret[x].tag \notin {"running", "error"}
    /\ ~(ret[x].tag = "value" /\ ret[x].v > 0)

C1_Witness ==
  /\ GateMissed(1) /\ entry[1] = "execBatchWithClient"
  /\ Length(statements[1]) = MaxStmts /\ pc[1] = "done"

\* Some statement of an all-must-run execBatch failed after another succeeded.
PartialFailure(x) ==
  /\ Pooled(x) /\ ~firstSuccess[x]
  /\ \E i, j \in Events(x) :
       /\ i < j
       /\ IsReply(trace[x][i], "stmt") /\ trace[x][i].ok
       /\ IsReply(trace[x][j], "stmt") /\ ~trace[x][j].ok

\* The rollback of x stands in its session's queue behind every statement x
\* dispatched, and x issued nothing on any other session.
RollbackBehind(x) ==
  /\ client[x] \in Sessions
  /\ \A s \in Sessions \ {client[x]} : Mine(x, s) = {}
  /\ \E r \in Mine(x, client[x]) :
       /\ slog[client[x]][r].cmd = Rollback
       /\ \A j \in Mine(x, client[x]) : slog[client[x]][j].cmd.k = "stmt" => j < r
  /\ Cardinality({j \in Mine(x, client[x]) : slog[client[x]][j].cmd.k = "stmt"}) = Length(statements[x])

\* C2: execBatch, firstSuccess=false, a statement failing after another
\* succeeded: commit is never issued, rollback goes to the same session behind
\* every dispatched statement and is served before the call ends, and nothing
\* of the batch is committed or left pending.
C2_AllOrNothing ==
  \A x \in Calls : PartialFailure(x) =>
    /\ ~Issued(x, Commit)
    /\ RollbackBehind(x)
    /\ store \cap Effects(x) = {}
    /\ pc[x] = "done" =>
         /\ \A j \in Mine(x, client[x]) : slog[client[x]][j].st # "queued"
         /\ \A s \in Sessions : sess[s].pending \cap Effects(x) = {}

C2_Witness ==
  /\ PartialFailure(1) /\ pc[1] = "done"
  /\ Length(statements[1]) = MaxStmts
  /\ \E j \in Events(1) : IsReply(trace[1][j], "rollback") /\ trace[1][j].ok
  /\ \E j \in Events(1) : IsReply(trace[1][j], "stmt") /\ trace[1][j].ok /\ trace[1][j].rows > 0

\* C3: execBatch on a pool, two or more statements: the session pool.connect()
\* gave is released exactly once by the time the call has ended, whatever the
\* way it ended, and not before.
C3_ReleasedOnce ==
  \A x \in Calls : (Pooled(x) /\ Count(x, IsConnect) > 0) =>
    /\ Count(x, IsConnect) = 1
    /\ \A j \in Events(x) : (IsConnect(trace[x][j]) \/ IsRelease(trace[x][j])) => trace[x][j].on = client[x]
    /\ pc[x] = "done" => Count(x, IsRelease) = 1 /\ IsRelease(trace[x][Len(trace[x])])
    /\ pc[x] # "done" => Count(x, IsRelease) = 0 /\ sess[client[x]].holder = x

\* the exit path where rollback itself failed
C3_Witness ==
  /\ Pooled(1) /\ pc[1] = "done" /\ Count(1, IsRelease) = 1
  /\ ret[1].tag = "error" /\ ret[1].err.step = Rollback
  /\ sess[client[1]].holder = Nobody

\* A step of the transaction (begin, a statement, commit) was answered with a failure.
StepFailed(ev) == ev.op = "reply" /\ ~ev.ok /\ ev.cmd.k \in {"begin", "stmt", "commit"}
FirstFailure(x) == CHOOSE f \in Events(x) : StepFailed(trace[x][f]) /\ \A j \in Events(x) : StepFailed(trace[x][j]) => f <= j

\* What holds of every failed batch: rollback goes to the session, no commit
\* follows the failure, and the call ends with an error, not a count.
RolledBack(x) ==
  LET f == FirstFailure(x) IN
  /\ \E j \in Events(x) : j > f /\ IsIssue(trace[x][j], Rollback) /\ trace[x][j].on = client[x]
  /\ \A j \in Events(x) : j > f => ~IsIssue(trace[x][j], Commit)
  /\ ret[x].tag # "value"
  /\ pc[x] = "done" => ret[x].tag = "error"

\* C4: a batch of two or more statements in which begin, a statement or commit
\* fails: rollback is issued on the session, commit is not issued afterwards,
\* no count is returned, and the caller receives the error of the step that
\* failed.
C4_OriginalError ==
  \A x \in Calls : (Batch(x) /\ \E j \in Events(x) : StepFailed(trace[x][j])) =>
    /\ RolledBack(x)
    /\ pc[x] = "done" =>
         /\ ret[x].err.step = trace[x][FirstFailure(x)].cmd
         /\ ret[x].err.code = trace[x][FirstFailure(x)].code

\* the part of C4 that the code keeps
C4_RolledBack ==
  \A x \in Calls : (Batch(x) /\ \E j \in Events(x) : StepFailed(trace[x][j])) => RolledBack(x)

\* C5: in a gated batch, the first statement is issued only after begin was
\* answered, and a later statement only after the first statement was
\* answered with a non-zero count.
C5_GateOrder ==
  \A x \in Calls : (Batch(x) /\ firstSuccess[x]) =>
    \A j \in Events(x) :
      /\ IsIssue(trace[x][j], Stmt(1)) =>
           \E i \in 1..(j - 1) : IsReply(trace[x][i], "begin") /\ trace[x][i].ok
      /\ (trace[x][j].op = "issue" /\ trace[x][j].cmd.k = "stmt" /\ trace[x][j].cmd.i >= 2) =>
           \E i \in 1..(j - 1) : /\ IsReply(trace[x][i], "stmt") /\ trace[x][i].cmd = Stmt(1)
                                 /\ trace[x][i].ok /\ trace[x][i].rows # 0

C5_Witness ==
  /\ Batch(1) /\ firstSuccess[1] /\ Length(statements[1]) = MaxStmts
  /\ Issued(1, Stmt(MaxStmts)) /\ pc[1] = "all"

RECURSIVE RowsSum(_)
RowsSum(tr) ==
  IF tr = << >> THEN 0
  ELSE (IF IsReply(Head(tr), "stmt") /\ Head(tr).ok THEN Head(tr).rows ELSE 0) + RowsSum(Tail(tr))

\* The call ended and every step it took succeeded (the gate passed).
AllSucceeded(x) ==
  /\ Batch(x) /\ pc[x] = "done"
  /\ entry[x] = "execBatch" => Count(x, IsConnect) = 1
  /\ \A j \in Events(x) : trace[x][j].op = "reply" => trace[x][j].ok
  /\ ~GateMissed(x)

\* C6: a batch whose every step succeeds: commit is issued exactly once, after
\* the answers to all its statements, and the call returns the sum of the
\* affected-row counts of all statements, the first included.
C6_SumAndCommit ==
  \A x \in Calls : AllSucceeded(x) =>
    /\ Cardinality({j \in Events(x) : IsIssue(trace[x][j], Commit)}) = 1
    /\ \A i \in 1..Length(statements[x]) :
         \E j, k \in Events(x) : /\ j < k /\ IsIssue(trace[x][k], Commit)
                                 /\ IsReply(trace[x][j], "stmt") /\ trace[x][j].cmd = Stmt(i)
    /\ ret[x] = Value(RowsSum(trace[x]))

C6_Witness ==
  /\ AllSucceeded(1) /\ firstSuccess[1] /\ Length(statements[1]) = MaxStmts
  /\ ret[1] = Value(MaxStmts * MaxRows)

\* C7: execBatch on a pool, two or more statements: begin, the statements and
\* commit or rollback all go to the one session checked out for the call.
C7_OneSession ==
  \A x \in Calls : Pooled(x) =>
    /\ \A j \in Events(x) : trace[x][j].on = client[x]
    /\ trace[x] # << >> => client[x] \in Sessions /\ IsConnect(trace[x][1])
    /\ \A s \in Sessions : Mine(x, s) # {} => s = client[x]
    /\ pc[x] \notin {"idle", "connect", "done"} => sess[client[x]].holder = x

C7_Witness ==
  /\ Pooled(1) /\ pc[1] = "done" /\ ret[1].tag = "value"
  /\ Cardinality(Mine(1, client[1])) = MaxStmts + 2

InTx(x) == pc[x] \in {"begin", "first", "all", "commit", "rollback"}
\* The commands of each call stand together in the session's queue.
Unmixed(s) ==
  \A i, j, k \in DOMAIN slog[s] :
    (i < j /\ j < k /\ slog[s][i].call = slog[s][k].call) => slog[s][j].call = slog[s][i].call
\* The effects of the statements of x that were answered with a count above 0.
OwnEffects(x) ==
  {<<x, trace[x][j].cmd.i>> : j \in {n \in Events(x) : IsReply(trace[x][n], "stmt") /\ trace[x][n].ok /\ trace[x][n].rows > 0}}

\* C8: two execBatch calls in flight together on one pool: each holds its own
\* session while its transaction runs, their commands do not mix on a session,
\* and what each commits and returns follows from the answers to its own
\* statements alone.
C8_Isolation ==
  /\ \A s \in Sessions : Unmixed(s)
  /\ \A x \in Calls : Pooled(x) =>
       /\ InTx(x) => /\ sess[client[x]].holder = x
                     /\ sess[client[x]].pending \subseteq Effects(x)
                     /\ \A y \in Calls \ {x} : InTx(y) => client[y] # client[x]
       /\ pc[x] # "done" => store \cap Effects(x) = {}
       /\ (pc[x] = "done" /\ ret[x].tag = "value") =>
            /\ ret[x].v = RowsSum(trace[x])
            /\ store \cap Effects(x) = OwnEffects(x)
       /\ (pc[x] = "done" /\ ret[x].tag # "value") => store \cap Effects(x) = {}

\* both transactions open at once, each with work of its own pending
C8_Witness ==
  /\ pc[1] = "commit" /\ pc[2] = "commit"
  /\ client[1] # client[2]
  /\ sess[client[1]].pending # {} /\ sess[client[2]].pending # {}

\* The call was given no statement, or no record, to run.
EmptyInput(x) ==
  \/ via[x] \in {"execBatch", "execBatchWithClient"} /\ (statements[x].nil \/ Length(statements[x]) = 0)
  \/ via[x] \in {"saveBatch", "write"} /\ ~objs[x].nil /\ Length(objs[x]) = 0

\* C9: an empty or absent statement list (for saveBatch and write, an empty
\* list of records): the call returns 0 at once, with no session checked out
\* and no command issued.
C9_EmptyIsNoop ==
  \A x \in Calls : EmptyInput(x) =>
    /\ pc[x] = "done" /\ ret[x] = Value(0)
    /\ trace[x] = << >>
    /\ \A s \in Sessions : Mine(x, s) = {} /\ sess[s].holder # x

C9_Witness == via[1] = "saveBatch" /\ EmptyInput(1) /\ pc[1] = "done"

\* C10: a list of exactly one statement, whatever firstSuccess: the statement
\* is dispatched once, no begin, commit or rollback is issued, and the call
\* returns the statement's affected-row count.
C10_SingleDirect ==
  \A x \in Calls : (entry[x] \in {"execBatch", "execBatchWithClient"} /\ Length(statements[x]) = 1) =>
    /\ Cardinality({j \in Events(x) : trace[x][j].op = "issue"}) = 1
    /\ IsIssue(trace[x][1], Stmt(1))
    /\ Count(x, IsConnect) = 0 /\ Count(x, IsRelease) = 0
    /\ \A s \in Sessions : \A j \in Mine(x, s) : slog[s][j].cmd = Stmt(1)
    /\ pc[x] = "done" =>
         /\ Len(trace[x]) = 2 /\ IsReply(trace[x][2], "stmt")
         /\ Cardinality(UNION {{<<s, j>> : j \in Mine(x, s)} : s \in Sessions}) = 1
         /\ trace[x][2].ok => ret[x] = Value(trace[x][2].rows)
         /\ ~trace[x][2].ok => ret[x].tag = "error"

C10_Witness ==
  /\ entry[1] = "execBatch" /\ firstSuccess[1] /\ Length(statements[1]) = 1
  /\ pc[1] = "done" /\ ret[1] = Value(0)

\* What normalisation makes of one parameter.
Norm(v) ==
  IF v \in {"undefined", "null"} THEN "null"
  ELSE IF v = "object" /\ resource_string THEN "json"
  ELSE v
\* q is the normalised form of the parameter list p: as long, in the same
\* order, each entry normalised; the empty list for an absent one.
Normalized(p, q) ==
  /\ ~q.nil
  /\ Len(q.items) = (IF p.nil THEN 0 ELSE Len(p.items))
  /\ \A i \in DOMAIN q.items : q.items[i] = Norm(p.items[i])

\* C11: the parameter list handed to the client with any statement, of a
\* single-statement call or of a batch under either policy, at any position,
\* is the normalised form of the statement's params.
C11_Normalized ==
  \A x \in Calls : \A j \in DOMAIN handed[x] :
    handed[x][j].cmd.k = "stmt" => Normalized(params[x], handed[x][j].values)

\* what the code keeps: the first statement of a gated batch, every statement
\* of an all-must-run batch and the single statement are normalised
C11_FirstAndAllNormalized ==
  \A x \in Calls : \A j \in DOMAIN handed[x] :
    (handed[x][j].cmd.k = "stmt" /\ ~(firstSuccess[x] /\ handed[x][j].cmd.i >= 2)) =>
       Normalized(params[x], handed[x][j].values)

\* The call ended by handing an error to its caller.
Rejected(x) == pc[x] = "done" /\ ret[x].tag = "error"
\* The error carries the classification exactly when it is a duplicate-key error.
Classified(err) == (err.error = "duplicate") <=> (err.code = DuplicateCode)

\* C12: an error that a single-statement call or a batch, under either
\* policy, hands to its caller carries error = "duplicate" when its engine
\* code is '23505', and carries no such field otherwise.
C12_DuplicateAnnotated ==
  \A x \in Calls : (Rejected(x) /\ entry[x] \in {"execBatch", "execBatchWithClient"}) => Classified(ret[x].err)

\* what the code keeps: exec, and the gated branch of execBatch on a pool,
\* classify; no error of another code is ever classified
C12_ExecAndGatedAnnotated ==
  \A x \in Calls : Rejected(x) =>
    /\ ret[x].err.code # DuplicateCode => ret[x].err.error = Null
    /\ (Length(statements[x]) = 1 \/ (entry[x] = "execBatch" /\ firstSuccess[x])) => Classified(ret[x].err)

\* The race of check k is decided by whichever happened first.
FirstWins(k) == check[k].log # << >> => (check[k].pc = "done" /\ check[k].ret = check[k].log[1])

\* C13: a check with a positive timeout ends whenever the database stalls,
\* during pool.connect() or during 'select now()', and it ends with the
\* timeout failure when the timer fired before the answer, with the answer
\* when the answer came first.
C13_WholeCallRaced ==
  /\ [](\A k \in Checks : check[k].timeout > 0 => FirstWins(k))
  /\ \A k \in Checks : (check[k].pc = "connect" /\ check[k].timeout > 0) ~> (check[k].pc = "done")

\* what the code keeps: once the session is acquired the query is raced
C13_QueryRaced ==
  /\ [](\A k \in Checks : check[k].timeout > 0 => FirstWins(k))
  /\ \A k \in Checks : (check[k].pc = "race") ~> (check[k].pc = "done")

\* The sessions check k holds.
HeldBy(k) == {s \in Sessions : sess[s].holder = Checker(k)}

\* C20: a check that has completed, by an answer, a failure or the timeout,
\* holds no session of the pool.
C20_SessionsReleased == \A k \in Checks : check[k].pc = "done" => HeldBy(k) = {}

\* where the leak leads: every check has completed and no session is left
\* in the pool for the next one
C20_PoolNeverExhausted ==
  (\A k \in Checks : check[k].pc = "done") => \E s \in Sessions : sess[s].holder = Nobody

\* x released its session only after a commit or rollback of its own was answered.
ClosedAtRelease(x) ==
  Count(x, IsRelease) > 0 =>
    \E j \in Events(x) : IsReply(trace[x][j], "commit") \/ IsReply(trace[x][j], "rollback")
\* x has its session and its begin is not answered yet: the session is in no
\* transaction left by an earlier call.
CleanOnConnect(x) == pc[x] = "begin" => sess[client[x]].tx = "none"

\* C18: execBatch with two or more statements: when the session is released,
\* a commit or rollback of the call has been answered, on the gate-miss path
\* too; so the session a call obtains from the pool is in no transaction of
\* an earlier call.
C18_NoOpenTransaction == \A x \in Calls : Pooled(x) => (ClosedAtRelease(x) /\ CleanOnConnect(x))

\* the second half alone: a call finds its session inside another's transaction
C18_CleanOnConnect == \A x \in Calls : Pooled(x) => CleanOnConnect(x)

\* what the code keeps: on every path but the gate miss the transaction is closed
C18_ClosedUnlessGateMiss == \A x \in Calls : (Pooled(x) /\ ~GateMissed(x)) => ClosedAtRelease(x)

\* The calls of release() on the manager's client, over all calls.
Releases ==
  UNION {{<<x, j>> : j \in {n \in Events(x) : IsRelease(trace[x][n]) /\ trace[x][n].on = MgrClient}} : x \in Calls}

\* C19: over a sequence of execBatchWithClient calls on one client,
\* release() is called on the client at most once, and no command is issued
\* on it in a call made after it was released.
C19_ReleasedAtMostOnce ==
  /\ Cardinality(Releases) <= 1
  /\ Count(1, IsRelease) > 0 => \A j \in Events(2) : trace[2][j].op # "issue"

\* what the code keeps: within one call nothing is issued after the release
C19_NothingAfterReleaseInCall ==
  \A x \in Calls : \A i, j \in Events(x) : (IsRelease(trace[x][i]) /\ i < j) => trace[x][j].op # "issue"

\* ------------------------------------------------ the result handlers' claims
Did(ops) == pure.ops = ops
RowIdx == DOMAIN pure.orig
\* The attribute of the list that names field k, if any (names are distinct).
Listed(k) == {pure.bools.items[j] : j \in {n \in DOMAIN pure.bools.items : pure.bools.items[n].name = k}}
\* The value as text: what String(v) gives.
Text(v) == IF v.t = "string" THEN v.s ELSE IF v.t = "number" THEN (IF v.n = 1 THEN "1" ELSE "0") ELSE v.t
Recognized == {"true", "1", "t", "y", "on"}
\* What coercion makes of value v under attribute a.
Coerced(v, a) ==
  IF v.t = "boolean" \/ Nullish(v) THEN v
  ELSE IF ~Nullish(a.true) THEN Bool(LooseEq(v, a.true))
  ELSE Bool(Text(v) \in Recognized)

\* C14: after handleBool every row has the fields it had; a field named by a
\* listed attribute, present and not a native boolean, is (value == true
\* literal) when the attribute defines one and otherwise true exactly for
\* 'true', '1', 't', 'y', 'on' (case-sensitive); a null or boolean field and
\* every field not listed is as it was.
C14_Coerced ==
  Did(<<"handleBool">>) =>
    /\ DOMAIN pure.rows = RowIdx
    /\ \A i \in RowIdx :
         /\ Keys(pure.rows[i]) = Keys(pure.orig[i])
         /\ \A k \in Keys(pure.orig[i]) :
              /\ Listed(k) = {} => Get(pure.rows[i], k) = Get(pure.orig[i], k)
              /\ \A a \in Listed(k) : Get(pure.rows[i], k) = Coerced(Get(pure.orig[i], k), a)

\* 'Y' gives false and 'y' gives true
C14_Witness ==
  /\ Did(<<"handleBool">>)
  /\ pure.orig = <<EmptyRow \o <<[k |-> "a", v |-> Str("Y")]>>, <<[k |-> "a", v |-> Str("y")]>>>>
  /\ pure.rows = <<EmptyRow \o <<[k |-> "a", v |-> Bool(FALSE)]>>, <<[k |-> "a", v |-> Bool(TRUE)]>>>>

\* C15: handleResults with a field map and boolean attributes gives
\* handleBool(mapArray(rows, m), bools): an attribute that names a field of
\* the renamed row coerces that field.
C15_RenameThenCoerce ==
  Did(<<"handleResults">>) =>
    /\ pure.rows = handleBool(mapArray(pure.orig, pure.m), pure.bools)
    /\ \A i \in RowIdx : \A j \in DOMAIN pure.bools.items :
         LET a == pure.bools.items[j]
             renamed == mapArray(pure.orig, pure.m)[i]
         IN (Has(renamed, a.name) /\ ~Nullish(Get(renamed, a.name))) =>
              /\ Has(pure.rows[i], a.name)
              /\ Get(pure.rows[i], a.name).t = "boolean"

\* the attribute names the destination x of the field a, which held 'y'
C15_Witness ==
  /\ Did(<<"handleResults">>)
  /\ ~pure.m.nil /\ DOMAIN pure.m.f = {"a"} /\ pure.m.f["a"] = "x"
  /\ pure.bools = [nil |-> FALSE, items |-> <<[name |-> "x", true |-> UndefinedValue]>>]
  /\ pure.orig = <<EmptyRow \o <<[k |-> "a", v |-> Str("y")]>>>>
  /\ pure.rows = <<EmptyRow \o <<[k |-> "x", v |-> Bool(TRUE)]>>>>

\* Two rows with the same fields and values.
SameRow(r1, r2) == Keys(r1) = Keys(r2) /\ \A k \in Keys(r1) : Get(r1, k) = Get(r2, k)
\* m maps every key of the row, one-to-one, to a name that is no other key
\* of the row.
MapsRowKeys(obj, m) ==
  /\ OneToOne(m)
  /\ Keys(obj) \subseteq DOMAIN m.f
  /\ \A k \in Keys(obj) : m.f[k] # "" /\ m.f[k] \notin (Keys(obj) \ {k})
\* m is one-to-one and none of its destinations is another key of the row
\* (keys of the row may be left unmapped).
AvoidsRowKeys(obj, m) ==
  /\ OneToOne(m)
  /\ \A k \in DOMAIN m.f : m.f[k] \in Keys(obj) => m.f[k] = k

\* C16: a row renamed with m and then with the inverse of m is the row it
\* was, for every one-to-one m whose destinations are not otherwise present
\* in the row.
C16_RoundTrip ==
  Did(<<"mapArray", "mapBack">>) =>
    /\ DOMAIN pure.rows = RowIdx
    /\ \A i \in RowIdx :
         (MapsRowKeys(pure.orig[i], pure.m) \/ AvoidsRowKeys(pure.orig[i], pure.m)) =>
            SameRow(pure.rows[i], pure.orig[i])

\* both fields renamed, and back
C16_Witness ==
  /\ Did(<<"mapArray", "mapBack">>)
  /\ Len(pure.orig) = 1 /\ Keys(pure.orig[1]) = {"a", "b"}
  /\ MapsRowKeys(pure.orig[1], pure.m)
  /\ Keys(pure.prev[1]) = {"x", "y"}
  /\ pure.rows = pure.orig

\* C17: handleBool applied to its own result changes no field.
C17_Idempotent == Did(<<"handleBool", "handleBool">>) => pure.rows = pure.prev

\* the first pass converted a field, the second left it
C17_Witness ==
  /\ Did(<<"handleBool", "handleBool">>)
  /\ pure.prev # pure.orig
  /\ pure.rows = pure.prev
  /\ \E j \in DOMAIN pure.bools.items : ~Nullish(pure.bools.items[j].true)

====
